---- MODULE Spec2Model ----
(***************************************************************************)
(* Loan matching engine: eligibility filter, quality scorer, feature       *)
(* vectoriser (LoanDataGenerator, data_generation.py) and the inference    *)
(* ranking engine (LoanMatchingInference, model_inference.py).             *)
(*                                                                         *)
(* Number representation.  Python floats are modelled exactly as           *)
(* rationals:                                                              *)
(*   - interestRate is kept in tenths of a percent (12.5 -> 125);          *)
(*   - a feature value is a pair <<numerator, denominator>>;               *)
(*   - a quality score is a numerator over QualityDen;                     *)
(*   - a match probability is a numerator over MaxProb.                    *)
(***************************************************************************)
EXTENDS Integers, Sequences, FiniteSets, TLC

VARIABLES
    user,       \* the applicant profile of the current request
    lender,     \* id of the catalog lender of the current pair call
    lenders,    \* the lender list handed to the ranking calls (list of dicts)
    model,      \* the frozen scorer: feature vector -> probability numerator
    scaler,     \* the frozen feature scaler (its fitted dimension)
    metadata,   \* model_metadata.json (input_size of the network)
    ret,        \* outcome of the last call: op, status, error, value
    calls,      \* the ranking calls in progress on one engine, one per thread
    trainer     \* LoanMatchingTrainer.train_model: its config, locals and checkpoint file

vars == <<user, lender, lenders, model, scaler, metadata, ret, calls, trainer>>

(***************************************************************************)
(* Bounds                                                                  *)
(***************************************************************************)
MaxLenders == 3     \* longest lender list passed to a ranking call
MaxTopK == 3        \* largest top_k passed to rank_lenders
MaxProb == 2        \* probabilities are k / MaxProb, k in 0..MaxProb

(***************************************************************************)
(* Python helpers                                                          *)
(***************************************************************************)
None == "None"

\* dict.get(key): the value, or None when the key is absent
Get(d, k) == IF k \in DOMAIN d THEN d[k] ELSE None

\* truthiness of an optional string
Truthy(v) == v # None /\ v # ""

\* all(d.values())
All(d) == \A k \in DOMAIN d : d[k]

Min(a, b) == IF a <= b THEN a ELSE b
Max(a, b) == IF a >= b THEN a ELSE b

\* a / b as an exact rational; a zero denominator stands for the
\* ZeroDivisionError Python raises when evaluating a / 0
Ratio(a, b) == <<a, b>>

\* building the feature list raised ZeroDivisionError
ZeroDivision(features) == \E i \in DOMAIN features : features[i][2] = 0

One == <<1, 1>>
Zero == <<0, 1>>

(***************************************************************************)
(* Catalog: the 15 lender definitions of _load_lenders (raw dicts).        *)
(* Lender 12 is defined without loanPurpose; only lender 12 has a          *)
(* specialEligibility key.                                                 *)
(***************************************************************************)
lenders_data ==
    <<
    [id |-> 1, name |-> "FastCash Inc.", minLoanAmount |-> 1000, maxLoanAmount |-> 5000,
     minIncome |-> 20000, employmentTypes |-> {"salaried", "self-employed"},
     minCreditScore |-> 600, interestRate |-> 125, loanPurpose |-> "any"],
    [id |-> 2, name |-> "HomeFund Bank", minLoanAmount |-> 50000, maxLoanAmount |-> 500000,
     minIncome |-> 50000, employmentTypes |-> {"salaried"},
     minCreditScore |-> 700, interestRate |-> 89, loanPurpose |-> "home"],
    [id |-> 3, name |-> "EduFinance", minLoanAmount |-> 10000, maxLoanAmount |-> 200000,
     minIncome |-> 0, employmentTypes |-> {"student"},
     minCreditScore |-> 0, interestRate |-> 65, loanPurpose |-> "education"],
    [id |-> 4, name |-> "BizGrow Capital", minLoanAmount |-> 25000, maxLoanAmount |-> 1000000,
     minIncome |-> 100000, employmentTypes |-> {"self-employed"},
     minCreditScore |-> 650, interestRate |-> 105, loanPurpose |-> "business"],
    [id |-> 5, name |-> "QuickPay Loans", minLoanAmount |-> 500, maxLoanAmount |-> 10000,
     minIncome |-> 15000, employmentTypes |-> {"salaried", "freelancer", "self-employed"},
     minCreditScore |-> 580, interestRate |-> 130, loanPurpose |-> "any"],
    [id |-> 6, name |-> "CarCredit Bank", minLoanAmount |-> 30000, maxLoanAmount |-> 200000,
     minIncome |-> 25000, employmentTypes |-> {"salaried"},
     minCreditScore |-> 660, interestRate |-> 95, loanPurpose |-> "vehicle"],
    [id |-> 7, name |-> "PersonalTrust", minLoanAmount |-> 10000, maxLoanAmount |-> 50000,
     minIncome |-> 20000, employmentTypes |-> {"salaried", "self-employed"},
     minCreditScore |-> 620, interestRate |-> 112, loanPurpose |-> "any"],
    [id |-> 8, name |-> "StartupFund", minLoanAmount |-> 50000, maxLoanAmount |-> 1000000,
     minIncome |-> 0, employmentTypes |-> {"self-employed"},
     minCreditScore |-> 0, interestRate |-> 120, loanPurpose |-> "startup"],
    [id |-> 9, name |-> "StudentLend", minLoanAmount |-> 5000, maxLoanAmount |-> 50000,
     minIncome |-> 0, employmentTypes |-> {"student"},
     minCreditScore |-> 550, interestRate |-> 70, loanPurpose |-> "education"],
    [id |-> 10, name |-> "HouseEasy", minLoanAmount |-> 100000, maxLoanAmount |-> 1000000,
     minIncome |-> 75000, employmentTypes |-> {"salaried", "self-employed"},
     minCreditScore |-> 720, interestRate |-> 85, loanPurpose |-> "home"],
    [id |-> 11, name |-> "FreelanceFlex", minLoanAmount |-> 5000, maxLoanAmount |-> 30000,
     minIncome |-> 20000, employmentTypes |-> {"freelancer"},
     minCreditScore |-> 600, interestRate |-> 127, loanPurpose |-> "any"],
    [id |-> 12, name |-> "WomenEmpower Finance", minLoanAmount |-> 10000, maxLoanAmount |-> 100000,
     minIncome |-> 10000, employmentTypes |-> {"salaried", "self-employed"},
     minCreditScore |-> 600, interestRate |-> 98, specialEligibility |-> "women"],
    [id |-> 13, name |-> "GreenLoan Co.", minLoanAmount |-> 5000, maxLoanAmount |-> 100000,
     minIncome |-> 15000, employmentTypes |-> {"salaried", "self-employed"},
     minCreditScore |-> 640, interestRate |-> 101, loanPurpose |-> "eco"],
    [id |-> 14, name |-> "EmergencyFund", minLoanAmount |-> 1000, maxLoanAmount |-> 20000,
     minIncome |-> 10000, employmentTypes |-> {"any"},
     minCreditScore |-> 550, interestRate |-> 145, loanPurpose |-> "emergency"],
    [id |-> 15, name |-> "GoldSecure Loans", minLoanAmount |-> 25000, maxLoanAmount |-> 150000,
     minIncome |-> 30000, employmentTypes |-> {"salaried", "self-employed"},
     minCreditScore |-> 610, interestRate |-> 92, loanPurpose |-> "gold-backed"]
    >>

\* LenderData(**data): the dataclass fills loanPurpose = "any" and
\* specialEligibility = None when the dict has no such key
LenderData(data) ==
    [id |-> data.id, name |-> data.name,
     minLoanAmount |-> data.minLoanAmount, maxLoanAmount |-> data.maxLoanAmount,
     minIncome |-> data.minIncome, employmentTypes |-> data.employmentTypes,
     minCreditScore |-> data.minCreditScore, interestRate |-> data.interestRate,
     loanPurpose |-> IF "loanPurpose" \in DOMAIN data THEN data.loanPurpose ELSE "any",
     specialEligibility |-> IF "specialEligibility" \in DOMAIN data
                            THEN data.specialEligibility ELSE None]

\* self.lenders of LoanDataGenerator
load_lenders == [i \in DOMAIN lenders_data |-> LenderData(lenders_data[i])]

LenderIds == DOMAIN lenders_data

employment_types == {"salaried", "self-employed", "freelancer", "student", "unemployed"}

loan_purposes == {"home", "vehicle", "education", "business", "startup", "eco",
                  "emergency", "gold-backed", "personal"}

UserProfile(loanAmount, annualIncome, employmentStatus, creditScore, loanPurpose) ==
    [loanAmount |-> loanAmount, annualIncome |-> annualIncome,
     employmentStatus |-> employmentStatus, creditScore |-> creditScore,
     loanPurpose |-> loanPurpose]

(***************************************************************************)
(* LoanDataGenerator: eligibility, quality score, label, features          *)
(***************************************************************************)
\* the bug of a strict lower bound on the loan amount
LoanDataGenerator_check_eligibility_strict(u, l) ==
    [loanAmountInRange |-> l.minLoanAmount < u.loanAmount /\ u.loanAmount <= l.maxLoanAmount,
     incomeRequirement |-> u.annualIncome >= l.minIncome,
     creditScoreRequirement |-> u.creditScore >= l.minCreditScore,
     employmentTypeMatch |-> "any" \in l.employmentTypes \/ u.employmentStatus \in l.employmentTypes,
     purposeMatch |-> l.loanPurpose = "any" \/ l.loanPurpose = u.loanPurpose]

LoanDataGenerator_check_eligibility(u, l) ==
    [loanAmountInRange |-> l.minLoanAmount <= u.loanAmount /\ u.loanAmount <= l.maxLoanAmount,
     incomeRequirement |-> u.annualIncome >= l.minIncome,
     creditScoreRequirement |-> u.creditScore >= l.minCreditScore,
     employmentTypeMatch |-> "any" \in l.employmentTypes \/ u.employmentStatus \in l.employmentTypes,
     purposeMatch |-> l.loanPurpose = "any" \/ l.loanPurpose = u.loanPurpose]

\* the bug of relating the loan amount to minLoanAmount instead of maxLoanAmount
LoanDataGenerator_extract_features_min_ratio(u, l) ==
    << Ratio(Min(u.loanAmount, 1000000), 1000000),
       Ratio(Min(u.annualIncome, 500000), 500000),
       Ratio(u.creditScore, 850),
       Ratio(l.interestRate, 200),
       IF "any" \in l.employmentTypes \/ u.employmentStatus \in l.employmentTypes
           THEN One ELSE Zero,
       IF l.loanPurpose = "any" \/ l.loanPurpose = u.loanPurpose THEN One ELSE Zero,
       IF Truthy(l.specialEligibility) THEN One ELSE Zero,
       Ratio(u.loanAmount, l.minLoanAmount),
       IF l.minIncome > 0 THEN Ratio(u.annualIncome, l.minIncome) ELSE One,
       Ratio(Max(0, u.creditScore - l.minCreditScore), 550) >>

\* the bug of dividing by minIncome without the minIncome > 0 guard
LoanDataGenerator_extract_features_unguarded(u, l) ==
    << Ratio(Min(u.loanAmount, 1000000), 1000000),
       Ratio(Min(u.annualIncome, 500000), 500000),
       Ratio(u.creditScore, 850),
       Ratio(l.interestRate, 200),
       IF "any" \in l.employmentTypes \/ u.employmentStatus \in l.employmentTypes
           THEN One ELSE Zero,
       IF l.loanPurpose = "any" \/ l.loanPurpose = u.loanPurpose THEN One ELSE Zero,
       IF Truthy(l.specialEligibility) THEN One ELSE Zero,
       Ratio(u.loanAmount, l.maxLoanAmount),
       Ratio(u.annualIncome, l.minIncome),
       Ratio(Max(0, u.creditScore - l.minCreditScore), 550) >>

LoanDataGenerator_extract_features(u, l) ==
    << Ratio(Min(u.loanAmount, 1000000), 1000000),
       Ratio(Min(u.annualIncome, 500000), 500000),
       Ratio(u.creditScore, 850),
       Ratio(l.interestRate, 200),
       IF "any" \in l.employmentTypes \/ u.employmentStatus \in l.employmentTypes
           THEN One ELSE Zero,
       IF l.loanPurpose = "any" \/ l.loanPurpose = u.loanPurpose THEN One ELSE Zero,
       IF Truthy(l.specialEligibility) THEN One ELSE Zero,
       Ratio(u.loanAmount, l.maxLoanAmount),
       IF l.minIncome > 0 THEN Ratio(u.annualIncome, l.minIncome) ELSE One,
       Ratio(Max(0, u.creditScore - l.minCreditScore), 550) >>

(***************************************************************************)
(* LoanMatchingInference: the same two functions over lender dicts         *)
(***************************************************************************)
LoanMatchingInference_check_eligibility(u, d) ==
    [loanAmountInRange |-> d.minLoanAmount <= u.loanAmount /\ u.loanAmount <= d.maxLoanAmount,
     incomeRequirement |-> u.annualIncome >= d.minIncome,
     creditScoreRequirement |-> u.creditScore >= d.minCreditScore,
     employmentTypeMatch |->
         LET types == IF "employmentTypes" \in DOMAIN d THEN d.employmentTypes ELSE {}
         IN  "any" \in types \/ u.employmentStatus \in types,
     purposeMatch |-> Get(d, "loanPurpose") = "any"
                      \/ Get(d, "loanPurpose") = u.loanPurpose]

LoanMatchingInference_extract_features(u, d) ==
    << Ratio(Min(u.loanAmount, 1000000), 1000000),
       Ratio(Min(u.annualIncome, 500000), 500000),
       Ratio(u.creditScore, 850),
       Ratio(d.interestRate, 200),
       LET types == IF "employmentTypes" \in DOMAIN d THEN d.employmentTypes ELSE {}
       IN  IF "any" \in types \/ u.employmentStatus \in types THEN One ELSE Zero,
       IF Get(d, "loanPurpose") = "any" \/ Get(d, "loanPurpose") = u.loanPurpose
           THEN One ELSE Zero,
       IF Truthy(Get(d, "specialEligibility")) THEN One ELSE Zero,
       Ratio(u.loanAmount, d.maxLoanAmount),
       IF d.minIncome > 0 THEN Ratio(u.annualIncome, d.minIncome) ELSE One,
       Ratio(Max(0, u.creditScore - d.minCreditScore), 550) >>

(***************************************************************************)
(* LoanDataGenerator.calculate_quality_score                               *)
(* The score is kept as points * avg_rate (an integer); the returned       *)
(* quality is a numerator over QualityDen = avg_rate * max_score.          *)
(***************************************************************************)
avg_rate == 105     \* 10.5 %, in tenths of a percent

\* 25 * (avg_rate - interestRate) / avg_rate, times avg_rate
rate_points(l) ==
    IF l.interestRate < avg_rate THEN 25 * (avg_rate - l.interestRate) ELSE 0

purpose_points(u, l) ==
    IF l.loanPurpose = u.loanPurpose THEN 25
    ELSE IF l.loanPurpose = "any" THEN 10
    ELSE 0

\* the bug of swapping the awards of the two middle tiers
credit_points_swapped(u, l) ==
    LET credit_buffer == u.creditScore - l.minCreditScore
    IN  IF credit_buffer >= 100 THEN 25
        ELSE IF credit_buffer >= 50 THEN 15
        ELSE IF credit_buffer >= 20 THEN 20
        ELSE IF credit_buffer >= 0 THEN 10
        ELSE 0

credit_points(u, l) ==
    LET credit_buffer == u.creditScore - l.minCreditScore
    IN  IF credit_buffer >= 100 THEN 25
        ELSE IF credit_buffer >= 50 THEN 20
        ELSE IF credit_buffer >= 20 THEN 15
        ELSE IF credit_buffer >= 0 THEN 10
        ELSE 0

\* the bug of awarding the full 25 points when there is no income requirement
income_points_full_credit(u, l) ==
    IF l.minIncome > 0
    THEN IF u.annualIncome >= 3 * l.minIncome THEN 25
         ELSE IF u.annualIncome >= 2 * l.minIncome THEN 20
         ELSE IF 2 * u.annualIncome >= 3 * l.minIncome THEN 15
         ELSE IF u.annualIncome >= l.minIncome THEN 10
         ELSE 0
    ELSE 25

\* income_ratio = annualIncome / minIncome compared without division
income_points(u, l) ==
    IF l.minIncome > 0
    THEN IF u.annualIncome >= 3 * l.minIncome THEN 25
         ELSE IF u.annualIncome >= 2 * l.minIncome THEN 20
         ELSE IF 2 * u.annualIncome >= 3 * l.minIncome THEN 15
         ELSE IF u.annualIncome >= l.minIncome THEN 10
         ELSE 0
    ELSE 15

\* max_score after the four unconditional "max_score += 25"
max_score == 25 + 25 + 25 + 25

QualityDen == avg_rate * max_score

\* the bug of dividing by the realized maximum: 90 when minIncome == 0
calculate_quality_score_realized_max(u, l) ==
    LET score == rate_points(l)
                 + avg_rate * (purpose_points(u, l) + credit_points(u, l) + income_points(u, l))
        realized == 25 + 25 + 25 + (IF l.minIncome > 0 THEN 25 ELSE 15)
    IN  Min(QualityDen, (score * max_score) \div realized)

\* the bug of answering on the 0..100 scale: min(100.0, score / max_score * 100)
calculate_quality_score_percent(u, l) ==
    LET score == rate_points(l)
                 + avg_rate * (purpose_points(u, l) + credit_points(u, l) + income_points(u, l))
    IN  Min(100 * QualityDen, 100 * score)

\* min(1.0, score / max_score), as a numerator over QualityDen
calculate_quality_score(u, l) ==
    LET score == rate_points(l)
                 + avg_rate * (purpose_points(u, l) + credit_points(u, l) + income_points(u, l))
    IN  Min(QualityDen, score)

\* the bug of a strict threshold: a score of exactly 0.6 labelled 0
determine_match_label_strict(u, l) ==
    LET eligibility == LoanDataGenerator_check_eligibility(u, l)
    IN  IF ~All(eligibility) THEN <<0, 0>>
        ELSE LET quality_score == calculate_quality_score(u, l)
             IN  << IF 10 * quality_score > 6 * QualityDen THEN 1 ELSE 0,
                    quality_score * 100 >>

\* returns <<is_good_match, match_score>>; match_score is a numerator over QualityDen
determine_match_label(u, l) ==
    LET eligibility == LoanDataGenerator_check_eligibility(u, l)
    IN  IF ~All(eligibility) THEN <<0, 0>>
        ELSE LET quality_score == calculate_quality_score(u, l)
             IN  << IF 10 * quality_score >= 6 * QualityDen THEN 1 ELSE 0,
                    quality_score * 100 >>

(***************************************************************************)
(* Call outcomes                                                           *)
(***************************************************************************)
Return(op, v) == [op |-> op, status |-> "ok", error |-> None, value |-> v]
Raise(op, e) == [op |-> op, status |-> "raised", error |-> e, value |-> None]
NoCall == [op |-> "none", status |-> "ok", error |-> None, value |-> None]

(***************************************************************************)
(* LoanMatchingInference: scoring and ranking                              *)
(***************************************************************************)
\* number of features extract_features produces
NumFeatures == 10

\* predict_single: scaler.transform raises ValueError when the vector does
\* not have the scaler's fitted width, the network raises RuntimeError when
\* it does not have its input_size; nothing in the class catches either.
predict_single(u, d) ==
    LET features == LoanMatchingInference_extract_features(u, d)
    IN  IF ZeroDivision(features)
            THEN Raise("predict_single", "ZeroDivisionError")
        ELSE IF Len(features) # scaler.n_features_in_
            THEN Raise("predict_single", "ValueError")
        ELSE IF Len(features) # metadata.input_size
            THEN Raise("predict_single", "RuntimeError")
        ELSE LET probability == model[features]
             IN  Return("predict_single", <<probability, 2 * probability > MaxProb>>)

\* the dict predict_batch appends for one scored lender
BatchEntry(d, p) ==
    [lender_id |-> d.id, lender_name |-> d.name,
     match_probability |-> p[1], is_good_match |-> p[2],
     match_score |-> p[1] * 100, interest_rate |-> d.interestRate]

\* the bug of sorting ascending (forgetting reverse = True)
InsertByProbabilityAscending(sorted, r) ==
    LET k == Cardinality({i \in 1..Len(sorted) :
                            sorted[i].match_probability <= r.match_probability})
    IN  SubSeq(sorted, 1, k) \o <<r>> \o SubSeq(sorted, k + 1, Len(sorted))

\* list.sort(key = match_probability, reverse = True): Python's sort is
\* stable, and reverse = True keeps equal keys in their original order.
InsertByProbability(sorted, r) ==
    LET k == Cardinality({i \in 1..Len(sorted) :
                            sorted[i].match_probability >= r.match_probability})
    IN  SubSeq(sorted, 1, k) \o <<r>> \o SubSeq(sorted, k + 1, Len(sorted))

RECURSIVE SortByProbability(_)
SortByProbability(rs) ==
    IF rs = <<>> THEN <<>>
    ELSE InsertByProbability(SortByProbability(SubSeq(rs, 1, Len(rs) - 1)), rs[Len(rs)])

\* the loop of predict_batch: the first failing predict_single aborts it
RECURSIVE BatchLoop(_, _, _)
BatchLoop(u, ls, results) ==
    IF ls = <<>> THEN Return("predict_batch", results)
    ELSE LET p == predict_single(u, Head(ls))
         IN  IF p.status = "raised" THEN Raise("predict_batch", p.error)
             ELSE BatchLoop(u, Tail(ls), Append(results, BatchEntry(Head(ls), p.value)))

predict_batch(u, ls) ==
    LET looped == BatchLoop(u, ls, <<>>)
    IN  IF looped.status = "raised" THEN looped
        ELSE Return("predict_batch", SortByProbability(looped.value))

\* f"{rate:.1f}" of a rate held in tenths
FormatRate(r) == ToString(r \div 10) \o "." \o ToString(r % 10)

\* "; ".join(explanations)
RECURSIVE Join(_)
Join(clauses) ==
    IF Len(clauses) = 1 THEN clauses[1]
    ELSE clauses[1] \o "; " \o Join(Tail(clauses))

\* the bug of explaining every result from the first lender of the list
generate_explanation_first_lender(result, u, ls) ==
    LET l == ls[1]
        rate == IF l.interestRate < avg_rate
                THEN <<"Competitive interest rate of " \o FormatRate(l.interestRate) \o "%">>
                ELSE <<>>
        purpose == IF Get(l, "loanPurpose") = u.loanPurpose
                   THEN <<"Specializes in " \o u.loanPurpose \o " loans">>
                   ELSE IF Get(l, "loanPurpose") = "any"
                   THEN <<"Offers flexible loan purposes">>
                   ELSE <<>>
        credit_buffer == u.creditScore - l.minCreditScore
        credit == IF credit_buffer >= 100 THEN <<"Strong credit profile for this lender">>
                  ELSE IF credit_buffer >= 50 THEN <<"Good credit fit">>
                  ELSE <<>>
        income == IF l.minIncome > 0
                  THEN IF u.annualIncome >= 2 * l.minIncome
                       THEN <<"Income well exceeds minimum requirement">>
                       ELSE IF 2 * u.annualIncome >= 3 * l.minIncome
                       THEN <<"Income comfortably meets requirement">>
                       ELSE <<>>
                  ELSE <<>>
        explanations == rate \o purpose \o credit \o income
    IN  IF explanations # <<>> THEN Join(explanations) ELSE "Standard eligibility match"

generate_explanation(result, u, ls) ==
    LET first == CHOOSE i \in 1..Len(ls) :
                    /\ ls[i].id = result.lender_id
                    /\ \A j \in 1..(i - 1) : ls[j].id # result.lender_id
        l == ls[first]
        rate == IF l.interestRate < avg_rate
                THEN <<"Competitive interest rate of " \o FormatRate(l.interestRate) \o "%">>
                ELSE <<>>
        purpose == IF Get(l, "loanPurpose") = u.loanPurpose
                   THEN <<"Specializes in " \o u.loanPurpose \o " loans">>
                   ELSE IF Get(l, "loanPurpose") = "any"
                   THEN <<"Offers flexible loan purposes">>
                   ELSE <<>>
        credit_buffer == u.creditScore - l.minCreditScore
        credit == IF credit_buffer >= 100 THEN <<"Strong credit profile for this lender">>
                  ELSE IF credit_buffer >= 50 THEN <<"Good credit fit">>
                  ELSE <<>>
        income == IF l.minIncome > 0
                  THEN IF u.annualIncome >= 2 * l.minIncome
                       THEN <<"Income well exceeds minimum requirement">>
                       ELSE IF 2 * u.annualIncome >= 3 * l.minIncome
                       THEN <<"Income comfortably meets requirement">>
                       ELSE <<>>
                  ELSE <<>>
        explanations == rate \o purpose \o credit \o income
    IN  IF explanations # <<>> THEN Join(explanations) ELSE "Standard eligibility match"

\* the off-by-one bug predictions[:top_k + 1]
SliceToInclusive(s, top_k) ==
    IF top_k + 1 >= 0 THEN SubSeq(s, 1, Min(top_k + 1, Len(s)))
    ELSE SubSeq(s, 1, Max(Len(s) + top_k + 1, 0))

\* predictions[:top_k], Python slice semantics (a negative top_k counts from the end)
SliceTo(s, top_k) ==
    IF top_k >= 0 THEN SubSeq(s, 1, Min(top_k, Len(s)))
    ELSE SubSeq(s, 1, Max(Len(s) + top_k, 0))

rank_lenders(u, ls, top_k) ==
    LET predictions == predict_batch(u, ls)
    IN  IF predictions.status = "raised" THEN Raise("rank_lenders", predictions.error)
        ELSE LET top == SliceTo(predictions.value, top_k)
             IN  Return("rank_lenders",
                        [i \in 1..Len(top) |->
                            [rank |-> i,
                             explanation |-> generate_explanation(top[i], u, ls)] @@ top[i]])

\* the two dicts predict_with_eligibility appends
EligibleEntry(d, p, eligibility) ==
    [lender_id |-> d.id, lender_name |-> d.name,
     match_probability |-> p[1], is_good_match |-> p[2],
     match_score |-> p[1] * 100, interest_rate |-> d.interestRate,
     is_eligible |-> TRUE, eligibility_details |-> eligibility]

IneligibleEntry(d, eligibility) ==
    [lender_id |-> d.id, lender_name |-> d.name,
     match_probability |-> 0, is_good_match |-> FALSE,
     match_score |-> 0, interest_rate |-> d.interestRate,
     is_eligible |-> FALSE, eligibility_details |-> eligibility]

RECURSIVE EligibilityLoop(_, _, _)
EligibilityLoop(u, ls, results) ==
    IF ls = <<>> THEN Return("predict_with_eligibility", results)
    ELSE LET d == Head(ls)
             eligibility == LoanMatchingInference_check_eligibility(u, d)
         IN  IF All(eligibility)
             THEN LET p == predict_single(u, d)
                  IN  IF p.status = "raised"
                      THEN Raise("predict_with_eligibility", p.error)
                      ELSE EligibilityLoop(u, Tail(ls),
                               Append(results, EligibleEntry(d, p.value, eligibility)))
             ELSE EligibilityLoop(u, Tail(ls),
                      Append(results, IneligibleEntry(d, eligibility)))

\* eligible_results + ineligible_results
ConcatResults(eligible_results, ineligible_results) ==
    eligible_results \o ineligible_results

predict_with_eligibility(u, ls) ==
    LET looped == EligibilityLoop(u, ls, <<>>)
    IN  IF looped.status = "raised" THEN looped
        ELSE LET eligible_results == SelectSeq(looped.value, LAMBDA r : r.is_eligible)
                 ineligible_results == SelectSeq(looped.value, LAMBDA r : ~r.is_eligible)
             IN  Return("predict_with_eligibility",
                        ConcatResults(SortByProbability(eligible_results), ineligible_results))

(***************************************************************************)
(* Inputs                                                                  *)
(***************************************************************************)
\* applicants of the pair calls: values on and next to the catalog's thresholds
PairLoanAmounts == {999, 1000, 5000, 5001, 15000, 100000}
PairIncomes == {0, 19999, 20000, 60000}
PairCreditScores == {599, 600, 720}

PairUsers ==
    {UserProfile(a, i, e, c, p) :
        a \in PairLoanAmounts, i \in PairIncomes, e \in employment_types,
        c \in PairCreditScores, p \in loan_purposes}

\* applicants of the ranking calls: the test user of main(), a small personal
\* loan, and the student scenario of test_integration.py
RankUsers ==
    {UserProfile(100000, 60000, "salaried", 720, "home"),
     UserProfile(5000, 60000, "salaried", 720, "personal"),
     UserProfile(15000, 0, "student", 600, "education")}

\* catalog lenders the ranking calls draw their lists from
RankPool == {1, 2, 5, 12}

\* lists of at most MaxLenders lenders with unique ids
IdLists ==
    {ids \in UNION {[1..n -> RankPool] : n \in 0..MaxLenders} :
        \A i, j \in DOMAIN ids : i # j => ids[i] # ids[j]}

\* feature widths the persisted scaler / network may have been fitted with
ArtifactWidths == {NumFeatures, NumFeatures - 1}

TopKs == (-1)..MaxTopK

(***************************************************************************)
(* Specification of the pair functions: one applicant, one catalog lender, *)
(* handed to the generator as its LenderData and to the inference engine   *)
(* as the dict it is defined from.                                         *)
(***************************************************************************)
InitPair ==
    /\ user \in PairUsers
    /\ lender \in LenderIds
    /\ lenders = <<lenders_data[lender]>>
    /\ model \in [{LoanMatchingInference_extract_features(user, lenders_data[lender])}
                    -> {0, MaxProb}]
    /\ scaler = [n_features_in_ |-> NumFeatures]
    /\ metadata = [input_size |-> NumFeatures]
    /\ ret = NoCall
    /\ trainer = None
    /\ calls = <<>>

GenCheckEligibility ==
    /\ ret' = Return("gen.check_eligibility",
                     LoanDataGenerator_check_eligibility(user, load_lenders[lender]))
    /\ UNCHANGED <<user, lender, lenders, model, scaler, metadata, calls, trainer>>

InfCheckEligibility ==
    /\ ret' = Return("inf.check_eligibility",
                     LoanMatchingInference_check_eligibility(user, lenders_data[lender]))
    /\ UNCHANGED <<user, lender, lenders, model, scaler, metadata, calls, trainer>>

GenExtractFeatures ==
    /\ LET features == LoanDataGenerator_extract_features(user, load_lenders[lender])
       IN  ret' = IF ZeroDivision(features)
                      THEN Raise("gen.extract_features", "ZeroDivisionError")
                  ELSE Return("gen.extract_features", features)
    /\ UNCHANGED <<user, lender, lenders, model, scaler, metadata, calls, trainer>>

InfExtractFeatures ==
    /\ LET features == LoanMatchingInference_extract_features(user, lenders_data[lender])
       IN  ret' = IF ZeroDivision(features)
                      THEN Raise("inf.extract_features", "ZeroDivisionError")
                  ELSE Return("inf.extract_features", features)
    /\ UNCHANGED <<user, lender, lenders, model, scaler, metadata, calls, trainer>>

CalculateQualityScore ==
    /\ ret' = Return("calculate_quality_score",
                     calculate_quality_score(user, load_lenders[lender]))
    /\ UNCHANGED <<user, lender, lenders, model, scaler, metadata, calls, trainer>>

DetermineMatchLabel ==
    /\ ret' = Return("determine_match_label",
                     determine_match_label(user, load_lenders[lender]))
    /\ UNCHANGED <<user, lender, lenders, model, scaler, metadata, calls, trainer>>

(***************************************************************************)
(* Specification of the ranking calls of a constructed inference engine    *)
(***************************************************************************)
Init ==
    /\ user \in RankUsers
    /\ lender = 0
    /\ \E ids \in IdLists : lenders = [i \in DOMAIN ids |-> lenders_data[ids[i]]]
    /\ model \in [{LoanMatchingInference_extract_features(user, lenders[i]) :
                      i \in DOMAIN lenders} -> 0..MaxProb]
    /\ scaler \in {[n_features_in_ |-> w] : w \in ArtifactWidths}
    /\ metadata \in {[input_size |-> w] : w \in ArtifactWidths}
    /\ ret = NoCall
    /\ trainer = None
    /\ calls = <<>>

PredictSingle ==
    /\ \E i \in DOMAIN lenders : ret' = predict_single(user, lenders[i])
    /\ UNCHANGED <<user, lender, lenders, model, scaler, metadata, calls, trainer>>

PredictBatch ==
    /\ ret' = predict_batch(user, lenders)
    /\ UNCHANGED <<user, lender, lenders, model, scaler, metadata, calls, trainer>>

RankLenders ==
    /\ \E top_k \in TopKs : ret' = [top_k |-> top_k] @@ rank_lenders(user, lenders, top_k)
    /\ UNCHANGED <<user, lender, lenders, model, scaler, metadata, calls, trainer>>

PredictWithEligibility ==
    /\ ret' = predict_with_eligibility(user, lenders)
    /\ UNCHANGED <<user, lender, lenders, model, scaler, metadata, calls, trainer>>

Next ==
    \/ PredictSingle
    \/ PredictBatch
    \/ RankLenders
    \/ PredictWithEligibility

Spec == Init /\ [][Next]_vars

NextPair ==
    \/ GenCheckEligibility
    \/ InfCheckEligibility
    \/ GenExtractFeatures
    \/ InfExtractFeatures
    \/ CalculateQualityScore
    \/ DetermineMatchLabel
    \/ PredictWithEligibility

SpecPair == InitPair /\ [][NextPair]_vars

(***************************************************************************)
(* Properties                                                              *)
(***************************************************************************)
Ok(op) == ret.op = op /\ ret.status = "ok"

\* the five predicates as the specification states them, over the purpose
\* and employment set the lender object carries
FivePredicates(u, minLoan, maxLoan, minIncome, minCredit, types, purpose) ==
    /\ ~(u.loanAmount < minLoan) /\ ~(u.loanAmount > maxLoan)
    /\ ~(u.annualIncome < minIncome)
    /\ ~(u.creditScore < minCredit)
    /\ (\E t \in types : t = "any" \/ t = u.employmentStatus)
    /\ purpose \in {"any", u.loanPurpose}

EligibleForLenderData(u, l) ==
    FivePredicates(u, l.minLoanAmount, l.maxLoanAmount, l.minIncome, l.minCreditScore,
                   l.employmentTypes, l.loanPurpose)

EligibleForDict(u, d) ==
    FivePredicates(u, d.minLoanAmount, d.maxLoanAmount, d.minIncome, d.minCreditScore,
                   d.employmentTypes, Get(d, "loanPurpose"))

\* C1: for every applicant and catalog lender the generator's and the
\* inference engine's extract_features return the same 10 values, the
\* inference engine being handed the dict the lender is defined from.
C1_SameFeatures ==
    /\ Ok("gen.extract_features") =>
          ret.value = LoanMatchingInference_extract_features(user, lenders_data[lender])
    /\ Ok("inf.extract_features") =>
          ret.value = LoanDataGenerator_extract_features(user, load_lenders[lender])

\* C2: a pair is labelled (determine_match_label) or scored
\* (predict_with_eligibility) as eligible exactly when the five predicates
\* hold, every inequality being inclusive at its equality point.
C2_EligibleIffFivePredicates ==
    /\ Ok("gen.check_eligibility") =>
          (All(ret.value) <=> EligibleForLenderData(user, load_lenders[lender]))
    /\ Ok("determine_match_label") =>
          (ret.value # <<0, 0>> <=> EligibleForLenderData(user, load_lenders[lender]))
    /\ Ok("inf.check_eligibility") =>
          (All(ret.value) <=> EligibleForDict(user, lenders_data[lender]))
    /\ Ok("predict_with_eligibility") =>
          \A i \in DOMAIN ret.value :
              ret.value[i].is_eligible <=> EligibleForDict(user, lenders[i])

\* an applicant exactly on the loan, income and credit minimum of a lender is labelled
C2_Witness ==
    /\ Ok("determine_match_label")
    /\ user.loanAmount = load_lenders[lender].minLoanAmount
    /\ user.annualIncome = load_lenders[lender].minIncome
    /\ user.creditScore = load_lenders[lender].minCreditScore
    /\ ret.value # <<0, 0>>

\* C3: for every applicant and catalog lender the generator's and the
\* inference engine's check_eligibility return the same five booleans.
C3_SameEligibility ==
    /\ Ok("gen.check_eligibility") =>
          ret.value = LoanMatchingInference_check_eligibility(user, lenders_data[lender])
    /\ Ok("inf.check_eligibility") =>
          ret.value = LoanDataGenerator_check_eligibility(user, load_lenders[lender])

\* the lender of the list a result was produced for
LenderOf(r) == lenders[CHOOSE i \in DOMAIN lenders : lenders[i].id = r.lender_id]

\* C4: every result of rank_lenders belongs to a lender for which all five
\* eligibility predicates hold; a lender failing one never receives a rank.
C4_RankedOnlyEligible ==
    Ok("rank_lenders") =>
        \A i \in DOMAIN ret.value : EligibleForDict(user, LenderOf(ret.value[i]))

\* the orderings of a lender list
Orderings(ls) ==
    {[i \in DOMAIN ls |-> ls[p[i]]] :
        p \in {q \in [DOMAIN ls -> DOMAIN ls] : \A i, j \in DOMAIN ls : i # j => q[i] # q[j]}}

EligibleResults(v) == SelectSeq(v, LAMBDA r : r.is_eligible)

TiesByLowerId(v) ==
    \A i, j \in DOMAIN v :
        (i < j /\ v[i].match_probability = v[j].match_probability)
            => v[i].lender_id < v[j].lender_id

\* C5: any two orderings of the same lender list give the same rank_lenders
\* result and the same eligible results of predict_with_eligibility, and
\* results of equal probability come lower lender id first.
C5_OrderIndependent ==
    /\ Ok("rank_lenders") =>
          /\ \A ls \in Orderings(lenders) :
                rank_lenders(user, ls, ret.top_k).value = ret.value
          /\ TiesByLowerId(ret.value)
    /\ Ok("predict_with_eligibility") =>
          /\ \A ls \in Orderings(lenders) :
                EligibleResults(predict_with_eligibility(user, ls).value)
                    = EligibleResults(ret.value)
          /\ TiesByLowerId(EligibleResults(ret.value))

\* C6: in the list predict_with_eligibility returns, every eligible result
\* precedes every ineligible one and the eligible results are in
\* non-increasing order of match_probability.
C6_EligibleFirstSorted ==
    Ok("predict_with_eligibility") =>
        \A i, j \in DOMAIN ret.value :
            i < j =>
                /\ ret.value[j].is_eligible => ret.value[i].is_eligible
                /\ (ret.value[i].is_eligible /\ ret.value[j].is_eligible)
                      => ret.value[i].match_probability >= ret.value[j].match_probability

\* an ineligible lender listed before two eligible ones that arrive in
\* increasing order of probability
C6_Witness ==
    /\ Ok("predict_with_eligibility")
    /\ Len(lenders) = 3
    /\ ~EligibleForDict(user, lenders[1])
    /\ EligibleForDict(user, lenders[2])
    /\ EligibleForDict(user, lenders[3])
    /\ predict_single(user, lenders[2]).value[1] < predict_single(user, lenders[3]).value[1]

\* C7: every result a ranking operation emits for a lender failing an
\* eligibility predicate has probability 0, score 0, is_good_match false, no
\* rank, and carries the five eligibility booleans, one of them false.
C7_IneligibleZeroed ==
    (Ok("rank_lenders") \/ Ok("predict_with_eligibility")) =>
        \A i \in DOMAIN ret.value :
            LET r == ret.value[i]
            IN  ~EligibleForDict(user, LenderOf(r)) =>
                    /\ r.match_probability = 0
                    /\ r.match_score = 0
                    /\ ~r.is_good_match
                    /\ "rank" \notin DOMAIN r
                    /\ "eligibility_details" \in DOMAIN r
                    /\ ~All(r.eligibility_details)

Scored(op) ==
    {i \in DOMAIN lenders :
        op = "rank_lenders" \/ All(LoanMatchingInference_check_eligibility(user, lenders[i]))}

\* C9: when the scorer fails on a lender of a ranking call, the call fails
\* with the scorer-unavailable condition and returns no result list.
C9_ScorerUnavailable ==
    (ret.op \in {"rank_lenders", "predict_with_eligibility"}
        /\ \E i \in Scored(ret.op) : predict_single(user, lenders[i]).status = "raised")
    => /\ ret.status = "raised"
       /\ ret.error = "ScorerUnavailable"
       /\ ret.value = None

\* C10: for every eligible pair calculate_quality_score lies in 0..1
\* (numerator between 0 and QualityDen).
C10_QualityInUnitInterval ==
    (Ok("calculate_quality_score") /\ EligibleForLenderData(user, load_lenders[lender]))
    => (0 <= ret.value /\ ret.value <= QualityDen)

\* an eligible pair scored strictly inside the interval
C10_Witness ==
    /\ Ok("calculate_quality_score")
    /\ EligibleForLenderData(user, load_lenders[lender])
    /\ 0 < ret.value
    /\ ret.value < QualityDen

\* credit scores on and next to the tier edges of a lender's credit buffer
CreditProbes(l) ==
    {c \in {l.minCreditScore + b : b \in {0, 19, 20, 49, 50, 99, 100, 150}} : c <= 850}

WithCredit(u, c) == [u EXCEPT !.creditScore = c]

\* C11: calculate_quality_score is non-decreasing in the credit buffer: of
\* two eligible pairs that differ only in the applicant's creditScore, the
\* one with the larger creditScore never scores lower.
C11_MonotoneInCredit ==
    (Ok("calculate_quality_score") /\ EligibleForLenderData(user, load_lenders[lender]))
    => \A c \in CreditProbes(load_lenders[lender]) :
          LET other == calculate_quality_score(WithCredit(user, c), load_lenders[lender])
          IN  /\ c <= user.creditScore => other <= ret.value
              /\ c >= user.creditScore => other >= ret.value

\* an eligible pair scored strictly higher than the same pair with a
\* smaller, still sufficient, credit score
C11_Witness ==
    /\ Ok("calculate_quality_score")
    /\ EligibleForLenderData(user, load_lenders[lender])
    /\ \E c \in CreditProbes(load_lenders[lender]) :
          /\ c < user.creditScore
          /\ calculate_quality_score(WithCredit(user, c), load_lenders[lender]) < ret.value

(***************************************************************************)
(* The documented component tables (points; the rate component is kept     *)
(* times avg_rate, like rate_points)                                       *)
(***************************************************************************)
TableRate(l) == 25 * Max(0, avg_rate - l.interestRate)

TablePurpose(u, l) ==
    CASE l.loanPurpose = u.loanPurpose -> 25
      [] l.loanPurpose # u.loanPurpose /\ l.loanPurpose = "any" -> 10
      [] OTHER -> 0

\* the highest tier whose edge the value reaches; tiers are <<edge, points>>
TierPoints(reaches(_), tiers) ==
    LET reached == {t \in tiers : reaches(t[1])}
    IN  IF reached = {} THEN 0
        ELSE (CHOOSE t \in reached : \A s \in reached : s[1] <= t[1])[2]

TableCredit(u, l) ==
    TierPoints(LAMBDA edge : u.creditScore - l.minCreditScore >= edge,
               {<<100, 25>>, <<50, 20>>, <<20, 15>>, <<0, 10>>})

\* income ratio edges in tenths: annualIncome / minIncome >= edge / 10
TableIncome(u, l) ==
    IF l.minIncome = 0 THEN 15
    ELSE TierPoints(LAMBDA edge : 10 * u.annualIncome >= edge * l.minIncome,
                    {<<30, 25>>, <<20, 20>>, <<15, 15>>, <<10, 10>>})

TableSum(u, l) ==
    TableRate(l) + avg_rate * (TablePurpose(u, l) + TableCredit(u, l) + TableIncome(u, l))

\* C12 as stated: the score is the sum of the component points over the sum
\* of the applicable maxima, the income maximum being 15 when minIncome == 0
\* (divisor 90) and 25 otherwise (divisor 100), capped at 1.
C12_RealizedMaximum ==
    (Ok("calculate_quality_score") /\ EligibleForLenderData(user, load_lenders[lender]))
    => LET l == load_lenders[lender]
           maxima == 25 + 25 + 25 + (IF l.minIncome = 0 THEN 15 ELSE 25)
       IN  ret.value * maxima = max_score * Min(avg_rate * maxima, TableSum(user, l))

\* C12 amended: the score is the sum of the component points over 100, the
\* four maxima of 25, for every lender -- also when minIncome == 0, where the
\* income component awards 15 of 25 -- capped at 1.
C12_FixedMaximum ==
    (Ok("calculate_quality_score") /\ EligibleForLenderData(user, load_lenders[lender]))
    => LET l == load_lenders[lender]
       IN  ret.value * (4 * 25) = max_score * Min(avg_rate * (4 * 25), TableSum(user, l))

\* an eligible pair with a lender that has no minimum income
C12_Witness ==
    /\ Ok("calculate_quality_score")
    /\ EligibleForLenderData(user, load_lenders[lender])
    /\ load_lenders[lender].minIncome = 0
    /\ ret.value = TableSum(user, load_lenders[lender])

HomeBuyer == UserProfile(100000, 60000, "salaried", 720, "home")
Student == UserProfile(15000, 0, "student", 600, "education")

\* C13: for every eligible pair the four components are awarded by the
\* documented tables; the home buyer of main() is ineligible for FastCash
\* and gets purpose 25, credit 15, income 10 and a positive rate component
\* from HomeFund; a zero-income student gets 15 income points from EduFinance.
C13_ComponentTables ==
    LET l == load_lenders[lender]
    IN  /\ (Ok("calculate_quality_score") /\ EligibleForLenderData(user, l)) =>
              /\ rate_points(l) = TableRate(l)
              /\ purpose_points(user, l) = TablePurpose(user, l)
              /\ credit_points(user, l) = TableCredit(user, l)
              /\ income_points(user, l) = TableIncome(user, l)
              /\ ret.value = Min(QualityDen, TableSum(user, l))
        /\ (Ok("calculate_quality_score") /\ user = HomeBuyer /\ l.name = "HomeFund Bank") =>
              /\ EligibleForLenderData(user, l)
              /\ purpose_points(user, l) = 25
              /\ credit_points(user, l) = 15
              /\ income_points(user, l) = 10
              /\ rate_points(l) > 0
              /\ ret.value = rate_points(l) + avg_rate * (25 + 15 + 10)
        /\ (Ok("calculate_quality_score") /\ user = Student /\ l.name = "EduFinance") =>
              /\ EligibleForLenderData(user, l)
              /\ income_points(user, l) = 15
        /\ (Ok("determine_match_label") /\ user = HomeBuyer /\ l.name = "FastCash Inc.") =>
              ret.value = <<0, 0>>

\* the zero-income student scored against EduFinance
C13_Witness ==
    /\ Ok("calculate_quality_score")
    /\ user = Student
    /\ load_lenders[lender].name = "EduFinance"
    /\ ret.value = rate_points(load_lenders[lender]) + avg_rate * (25 + 25 + 15)

\* C14: determine_match_label answers (0, 0.0) for every ineligible pair; for
\* every eligible pair the label is 1 exactly when the quality score is at
\* least 0.6 and match_score is the quality score times 100; so a label of 1
\* means an eligible pair with match_score >= 60.
C14_LabelFromScore ==
    Ok("determine_match_label") =>
        LET l == load_lenders[lender]
            quality == calculate_quality_score(user, l)
        IN  /\ ~EligibleForLenderData(user, l) => ret.value = <<0, 0>>
            /\ EligibleForLenderData(user, l) =>
                  /\ ret.value[1] = (IF 10 * quality >= 6 * QualityDen THEN 1 ELSE 0)
                  /\ ret.value[1] \in {0, 1}
                  /\ ret.value[2] = quality * 100
            /\ ret.value[1] = 1 =>
                  /\ EligibleForLenderData(user, l)
                  /\ ret.value[2] >= 60 * QualityDen

\* an eligible pair labelled 1 with a match_score of exactly 60
C14_Witness ==
    /\ Ok("determine_match_label")
    /\ EligibleForLenderData(user, load_lenders[lender])
    /\ ret.value = <<1, 60 * QualityDen>>

\* C15: the quality scorer called on a pair that fails an eligibility
\* predicate either raises a precondition error or returns 0.0; it never
\* returns a positive score for an ineligible pair.
C15_IneligibleNotScored ==
    (ret.op = "calculate_quality_score" /\ ~EligibleForLenderData(user, load_lenders[lender]))
    => \/ ret.status = "raised"
       \/ ret.status = "ok" /\ ret.value = 0

\* C16: extract_features, of the generator and of the inference engine, never
\* fails for an in-range applicant and a catalog lender, eligible or not: it
\* yields exactly 10 values, no division by zero is evaluated, and feature 9
\* is exactly 1.0 whenever the lender has no minimum income.
C16_ExtractNeverFails ==
    (ret.op \in {"gen.extract_features", "inf.extract_features"}
     /\ user.loanAmount > 0 /\ user.annualIncome >= 0 /\ user.creditScore \in 0..850)
    => /\ ret.status = "ok"
       /\ Len(ret.value) = 10
       /\ \A i \in 1..10 : ret.value[i][2] > 0
       /\ load_lenders[lender].maxLoanAmount > 0
       /\ load_lenders[lender].minIncome = 0 => ret.value[9] = <<1, 1>>

\* features of an applicant without income for a lender without minimum
\* income that the applicant is not eligible for
C16_Witness ==
    /\ Ok("gen.extract_features")
    /\ load_lenders[lender].minIncome = 0
    /\ user.annualIncome = 0
    /\ ~EligibleForLenderData(user, load_lenders[lender])
    /\ ret.value[9] = <<1, 1>>

(***************************************************************************)
(* Specification of lender records with arbitrary numbers: the list        *)
(* comprehension of _load_lenders building LenderData from lender          *)
(* definitions, and the ranking of the same definitions handed to the      *)
(* inference engine as dicts                                               *)
(***************************************************************************)
\* FastCash Inc. with its amounts, income and credit minimum varied
CandidateLenders ==
    {[lenders_data[1] EXCEPT !.minLoanAmount = lo, !.maxLoanAmount = hi,
                             !.minIncome = inc, !.minCreditScore = cs] :
        lo \in {-1, 1000, 6000}, hi \in {0, 5000},
        inc \in {-1, 0, 20000}, cs \in {-1, 600, 851}}

InitLoad ==
    /\ user \in RankUsers
    /\ lender = 0
    /\ lenders \in {<<d>> : d \in CandidateLenders}
    /\ model \in [{LoanMatchingInference_extract_features(user, lenders[1])} -> {0, MaxProb}]
    /\ scaler = [n_features_in_ |-> NumFeatures]
    /\ metadata = [input_size |-> NumFeatures]
    /\ ret = NoCall
    /\ trainer = None
    /\ calls = <<>>

\* return [LenderData(**data) for data in lenders_data]
LoadLenders ==
    /\ ret' = Return("_load_lenders", [i \in DOMAIN lenders |-> LenderData(lenders[i])])
    /\ UNCHANGED <<user, lender, lenders, model, scaler, metadata, calls, trainer>>

NextLoad ==
    \/ LoadLenders
    \/ PredictBatch

SpecLoad == InitLoad /\ [][NextLoad]_vars

WellFormed(l) ==
    /\ 0 <= l.minLoanAmount
    /\ l.minLoanAmount <= l.maxLoanAmount
    /\ l.maxLoanAmount > 0
    /\ l.minIncome >= 0
    /\ l.minCreditScore \in 0..850

\* C17: loading a catalog with a malformed lender fails with a validation
\* error, and every lender that gets scored and ranked is well formed.
C17_MalformedRejected ==
    /\ (ret.op = "_load_lenders" /\ \E i \in DOMAIN lenders : ~WellFormed(lenders[i]))
           => ret.status = "raised" /\ ret.error = "ValidationError"
    /\ Ok("predict_batch")
           => \A i \in DOMAIN ret.value : WellFormed(LenderOf(ret.value[i]))

(***************************************************************************)
(* Specification of the explanations of rank_lenders: applicants around    *)
(* the credit-buffer and income-ratio edges of FastCash Inc., HomeFund     *)
(* Bank, BizGrow Capital (rate exactly 10.5) and WomenEmpower Finance      *)
(***************************************************************************)
ExplainPool == {1, 2, 4, 12}

ExplainUsers ==
    {UserProfile(100000, i, "salaried", c, p) :
        i \in {0, 29999, 30000, 39999, 40000, 150000, 200000},
        c \in {599, 649, 650, 699, 700, 750},
        p \in {"home", "business"}}

InitExplain ==
    /\ user \in ExplainUsers
    /\ lender = 0
    /\ \E ids \in {l \in UNION {[1..n -> ExplainPool] : n \in 1..MaxLenders} :
                      \A i, j \in DOMAIN l : i # j => l[i] # l[j]} :
          lenders = [i \in DOMAIN ids |-> lenders_data[ids[i]]]
    /\ model \in [{LoanMatchingInference_extract_features(user, lenders[i]) :
                      i \in DOMAIN lenders} -> {0, MaxProb}]
    /\ scaler = [n_features_in_ |-> NumFeatures]
    /\ metadata = [input_size |-> NumFeatures]
    /\ ret = NoCall
    /\ trainer = None
    /\ calls = <<>>

NextExplain == RankLenders

SpecExplain == InitExplain /\ [][NextExplain]_vars

\* the seven clauses in their documented order, each with its condition
Clauses(u, d) ==
    LET purpose == Get(d, "loanPurpose")
        buffer == u.creditScore - d.minCreditScore
    IN  << [on |-> d.interestRate < 105,
            text |-> "Competitive interest rate of " \o FormatRate(d.interestRate) \o "%"],
           [on |-> purpose = u.loanPurpose,
            text |-> "Specializes in " \o u.loanPurpose \o " loans"],
           [on |-> purpose # u.loanPurpose /\ purpose = "any",
            text |-> "Offers flexible loan purposes"],
           [on |-> buffer >= 100,
            text |-> "Strong credit profile for this lender"],
           [on |-> buffer >= 50 /\ buffer < 100,
            text |-> "Good credit fit"],
           [on |-> d.minIncome > 0 /\ 10 * u.annualIncome >= 20 * d.minIncome,
            text |-> "Income well exceeds minimum requirement"],
           [on |-> /\ d.minIncome > 0
                   /\ 10 * u.annualIncome >= 15 * d.minIncome
                   /\ 10 * u.annualIncome < 20 * d.minIncome,
            text |-> "Income comfortably meets requirement"] >>

Applicable(u, d) == SelectSeq(Clauses(u, d), LAMBDA c : c.on)

RECURSIVE Semicolons(_)
Semicolons(cs) ==
    IF cs = <<>> THEN ""
    ELSE IF Len(cs) = 1 THEN cs[1].text
    ELSE Semicolons(SubSeq(cs, 1, Len(cs) - 1)) \o "; " \o cs[Len(cs)].text

\* C18: the explanation of every ranked result lists the clauses that apply
\* to the lender of that result, in the fixed order rate, purpose, credit
\* buffer, income adequacy, joined by "; "; it is the fallback "Standard
\* eligibility match" exactly when no clause applies.
C18_Explanation ==
    Ok("rank_lenders") =>
        \A i \in DOMAIN ret.value :
            LET applicable == Applicable(user, LenderOf(ret.value[i]))
            IN  /\ applicable # <<>> => ret.value[i].explanation = Semicolons(applicable)
                /\ applicable = <<>> <=> ret.value[i].explanation = "Standard eligibility match"

\* one ranking holding a result without any clause and, for another lender,
\* a result with three clauses
C18_Witness ==
    /\ Ok("rank_lenders")
    /\ \E i, j \in DOMAIN ret.value :
          /\ ret.value[i].explanation = "Standard eligibility match"
          /\ i < j
          /\ ret.value[j].explanation =
                "Offers flexible loan purposes; Good credit fit; Income well exceeds minimum requirement"

(***************************************************************************)
(* LoanDataGenerator.generate_training_dataset                             *)
(***************************************************************************)
MaxUsers == 2

\* the arguments <<a, b>> of the random.randint call drawing the income
income_range(employment) ==
    CASE employment = "student" -> <<0, 30000>>
      [] employment = "unemployed" -> <<0, 15000>>
      [] employment = "freelancer" -> <<15000, 150000>>
      [] employment = "self-employed" -> <<25000, 300000>>
      [] OTHER -> <<20000, 200000>>

\* the arguments of the random.randint call drawing the credit score
credit_range(employment, income) ==
    IF employment \in {"student", "unemployed"} THEN <<300, 650>>
    ELSE IF income < 30000 THEN <<550, 700>>
    ELSE IF income < 75000 THEN <<600, 750>>
    ELSE <<650, 850>>

\* the bug of an upper bound without its max(...) guard: an empty range when
\* the income multiple is below the lower bound
loan_range_unguarded(purpose, income) ==
    CASE purpose = "home" -> <<50000, Min(income * 5, 1000000)>>
      [] purpose = "vehicle" -> <<15000, Min(income * 3, 200000)>>
      [] purpose = "education" -> <<5000, Min(Max(income, 50000), 200000)>>
      [] purpose \in {"business", "startup"} -> <<25000, Min(income * 4, 1000000)>>
      [] OTHER -> <<1000, Min(income * 2, 100000)>>

\* the arguments of the random.randint call drawing the loan amount
loan_range(purpose, income) ==
    CASE purpose = "home" -> <<50000, Max(100000, Min(income * 5, 1000000))>>
      [] purpose = "vehicle" -> <<15000, Max(30000, Min(income * 3, 200000))>>
      [] purpose = "education" -> <<5000, Max(25000, Min(Max(income, 50000), 200000))>>
      [] purpose \in {"business", "startup"} -> <<25000, Max(50000, Min(income * 4, 1000000))>>
      [] OTHER -> <<1000, Max(10000, Min(income * 2, 100000))>>

\* the profiles generate_random_user can return, among a grid of values
generate_random_user ==
    {u \in {UserProfile(a, i, e, c, p) :
               a \in {15000, 100000}, i \in {0, 60000}, e \in employment_types,
               c \in {600, 720}, p \in {"home", "education", "personal"}} :
        LET incomes == income_range(u.employmentStatus)
            credits == credit_range(u.employmentStatus, u.annualIncome)
            loans == loan_range(u.loanPurpose, u.annualIncome)
        IN  /\ u.annualIncome \in incomes[1]..incomes[2]
            /\ u.creditScore \in credits[1]..credits[2]
            /\ u.loanAmount \in loans[1]..loans[2]}

feature_names ==
    <<"loan_amount_norm", "annual_income_norm", "credit_score_norm", "interest_rate_norm",
      "employment_match", "purpose_match", "special_eligibility",
      "loan_to_max_ratio", "income_multiple", "credit_buffer">>

\* one row of the table: the dict appended for (user_id, lender) and the ten
\* feature columns concatenated to it
TrainingRow(user_id, u, l) ==
    LET label == determine_match_label(u, l)
        features == LoanDataGenerator_extract_features(u, l)
    IN  [user_id |-> user_id, lender_id |-> l.id, lender_name |-> l.name,
         is_good_match |-> label[1], match_score |-> label[2], features |-> features,
         user_loan_amount |-> u.loanAmount, user_income |-> u.annualIncome,
         user_credit_score |-> u.creditScore, user_employment |-> u.employmentStatus,
         user_purpose |-> u.loanPurpose,
         lender_interest_rate |-> l.interestRate, lender_purpose |-> l.loanPurpose,
         columns |-> [i \in 1..Len(features) |-> <<feature_names[i], features[i]>>]]

\* the rows of users[user_id + 1 ..], every lender of the catalog for each
RECURSIVE TrainingLoop(_, _, _)
TrainingLoop(users, user_id, training_data) ==
    IF user_id >= Len(users) THEN training_data
    ELSE TrainingLoop(users, user_id + 1,
                      training_data \o [k \in DOMAIN load_lenders |->
                                           TrainingRow(user_id, users[user_id + 1],
                                                       load_lenders[k])])

\* users[i] is the profile generate_random_user returns in iteration i - 1.
\* With no row the DataFrame has no 'features' column and df['features']
\* raises KeyError.
generate_training_dataset(users) ==
    LET training_data == TrainingLoop(users, 0, <<>>)
    IN  IF \E i \in DOMAIN training_data : ZeroDivision(training_data[i].features)
            THEN Raise("generate_training_dataset", "ZeroDivisionError")
        ELSE IF training_data = <<>>
            THEN Raise("generate_training_dataset", "KeyError")
        ELSE Return("generate_training_dataset", training_data)

InitGen ==
    /\ user = None
    /\ lender = 0
    /\ lenders = <<>>
    /\ model = <<>>
    /\ scaler = None
    /\ metadata = None
    /\ ret = NoCall
    /\ trainer = None
    /\ calls = <<>>

\* main() builds one generator and calls generate_training_dataset once
GenerateTrainingDataset ==
    /\ ret = NoCall
    /\ \E num_users \in 0..MaxUsers :
          \E users \in [1..num_users -> generate_random_user] :
              ret' = [num_users |-> num_users, users |-> users]
                         @@ generate_training_dataset(users)
    /\ UNCHANGED <<user, lender, lenders, model, scaler, metadata, calls, trainer>>

NextGen == GenerateTrainingDataset

SpecGen == InitGen /\ [][NextGen]_vars

\* C19: generate_training_dataset(n) never aborts and yields exactly
\* n * |catalog| rows, one for each (user_id in 0..n-1, catalog lender) pair,
\* each with the 10 feature columns in the documented order and the label and
\* score of that same profile and lender.
C19_OneRowPerPair ==
    ret.op = "generate_training_dataset" =>
        /\ ret.status = "ok"
        /\ Len(ret.value) = ret.num_users * Len(load_lenders)
        /\ \A user_id \in 0..(ret.num_users - 1) : \A k \in DOMAIN load_lenders :
              LET rows == {i \in DOMAIN ret.value :
                              /\ ret.value[i].user_id = user_id
                              /\ ret.value[i].lender_id = load_lenders[k].id}
                  u == ret.users[user_id + 1]
                  l == load_lenders[k]
              IN  /\ Cardinality(rows) = 1
                  /\ \A i \in rows :
                        /\ [c \in 1..10 |-> ret.value[i].columns[c][1]] = feature_names
                        /\ [c \in 1..10 |-> ret.value[i].columns[c][2]]
                               = LoanDataGenerator_extract_features(u, l)
                        /\ <<ret.value[i].is_good_match, ret.value[i].match_score>>
                               = determine_match_label(u, l)

\* the same statement for the calls with at least one user
C19_HoldsFromOneUser == (ret.op = "generate_training_dataset" /\ ret.num_users >= 1) => C19_OneRowPerPair

(***************************************************************************)
(* Specification of concurrent ranking calls: two threads call one engine, *)
(* each with its own applicant and lender list; a call advances by one     *)
(* iteration of its loop at a time and the threads interleave freely       *)
(***************************************************************************)
Threads == {1, 2}

ConcPool == {1, 5}

ConcUsers ==
    {UserProfile(100000, 60000, "salaried", 720, "home"),
     UserProfile(5000, 60000, "salaried", 720, "personal")}

ConcOps == {"predict_single", "predict_batch", "rank_lenders", "predict_with_eligibility"}

ConcCalls ==
    {[op |-> op, user |-> u, lenders |-> [i \in DOMAIN ids |-> lenders_data[ids[i]]],
      top_k |-> 1, pc |-> 1, results |-> <<>>, status |-> "running", result |-> NoCall] :
        op \in ConcOps, u \in ConcUsers,
        ids \in {l \in UNION {[1..n -> ConcPool] : n \in 1..MaxLenders} :
                    \A i, j \in DOMAIN l : i # j => l[i] # l[j]}}

InitConc ==
    /\ user = None
    /\ lender = 0
    /\ lenders = <<>>
    /\ calls \in [Threads -> ConcCalls]
    /\ model \in [{LoanMatchingInference_extract_features(u, lenders_data[k]) :
                      u \in ConcUsers, k \in ConcPool} -> {0, MaxProb}]
    /\ scaler \in {[n_features_in_ |-> w] : w \in ArtifactWidths}
    /\ metadata = [input_size |-> NumFeatures]
    /\ ret = NoCall
    /\ trainer = None

\* the bug of keeping the results list on the engine: every call appends to
\* the list of the first
SharedResults(cs, t) == cs[1].results

\* results = []: the list is a local of the invocation
LocalResults(cs, t) == cs[t].results

\* one iteration of the for loop of predict_batch (also under rank_lenders)
\* or of predict_with_eligibility
CallIterate(t) ==
    /\ calls[t].status = "running"
    /\ calls[t].op # "predict_single"
    /\ calls[t].pc <= Len(calls[t].lenders)
    /\ LET c == calls[t]
           d == c.lenders[c.pc]
           eligibility == LoanMatchingInference_check_eligibility(c.user, d)
           skip == c.op = "predict_with_eligibility" /\ ~All(eligibility)
           p == predict_single(c.user, d)
       IN  calls' = [calls EXCEPT ![t] =
              IF skip
                  THEN [c EXCEPT !.pc = c.pc + 1,
                                 !.results = Append(LocalResults(calls, t),
                                                    IneligibleEntry(d, eligibility))]
              ELSE IF p.status = "raised"
                  THEN [c EXCEPT !.status = "done", !.result = Raise(c.op, p.error)]
              ELSE [c EXCEPT !.pc = c.pc + 1,
                             !.results = Append(LocalResults(calls, t),
                                 IF c.op = "predict_with_eligibility"
                                 THEN EligibleEntry(d, p.value, eligibility)
                                 ELSE BatchEntry(d, p.value))]]
    /\ UNCHANGED <<user, lender, lenders, model, scaler, metadata, ret, trainer>>

\* the code after the loop: sort, slice and explain, return
CallReturn(t) ==
    /\ calls[t].status = "running"
    /\ calls[t].op = "predict_single" \/ calls[t].pc > Len(calls[t].lenders)
    /\ LET c == calls[t]
           rs == LocalResults(calls, t)
           top == SliceTo(SortByProbability(rs), c.top_k)
       IN  calls' = [calls EXCEPT ![t].status = "done", ![t].result =
              CASE c.op = "predict_single" -> predict_single(c.user, c.lenders[1])
                [] c.op = "predict_batch" -> Return("predict_batch", SortByProbability(rs))
                [] c.op = "rank_lenders" ->
                      Return("rank_lenders",
                             [i \in 1..Len(top) |->
                                 [rank |-> i,
                                  explanation |->
                                      generate_explanation(top[i], c.user, c.lenders)] @@ top[i]])
                [] OTHER ->
                      Return("predict_with_eligibility",
                             ConcatResults(
                                 SortByProbability(SelectSeq(rs, LAMBDA r : r.is_eligible)),
                                 SelectSeq(rs, LAMBDA r : ~r.is_eligible)))]
    /\ UNCHANGED <<user, lender, lenders, model, scaler, metadata, ret, trainer>>

NextConc == \E t \in Threads : CallIterate(t) \/ CallReturn(t)

SpecConc == InitConc /\ [][NextConc]_vars

\* the result of the call when it runs alone
CallAlone(c) ==
    CASE c.op = "predict_single" -> predict_single(c.user, c.lenders[1])
      [] c.op = "predict_batch" -> predict_batch(c.user, c.lenders)
      [] c.op = "rank_lenders" -> rank_lenders(c.user, c.lenders, c.top_k)
      [] OTHER -> predict_with_eligibility(c.user, c.lenders)

\* C20: ranking calls never modify the model, the scaler, the metadata or
\* the lender records and applicant they were given, and under every
\* interleaving each finished call returns what it returns when run alone.
C20_CallsIsolated ==
    /\ [](\A t \in DOMAIN calls :
             calls[t].status = "done" => calls[t].result = CallAlone(calls[t]))
    /\ [][/\ model' = model /\ scaler' = scaler /\ metadata' = metadata
          /\ \A t \in DOMAIN calls :
                calls'[t].lenders = calls[t].lenders /\ calls'[t].user = calls[t].user]_vars

\* both threads have finished a ranking of two lenders, with different results
C20_Witness ==
    /\ DOMAIN calls = Threads
    /\ \A t \in Threads :
          /\ calls[t].status = "done"
          /\ calls[t].result.status = "ok"
          /\ calls[t].op \in {"rank_lenders", "predict_with_eligibility"}
          /\ Len(calls[t].results) >= 2
    /\ calls[1].result # calls[2].result

(***************************************************************************)
(* Specification of generate_random_user: every random.choice and          *)
(* random.randint is a nondeterministic draw; randint draws are taken from *)
(* both ends of the range and from the income tier edges inside it         *)
(***************************************************************************)
\* the values random.randint(a, b) is drawn from; empty when a > b, where
\* randint raises ValueError
randint(a, b) ==
    {x \in {a, b, 9999, 10000, 29999, 30000, 74999, 75000} : a <= x /\ x <= b}

InitUser ==
    /\ user = None
    /\ lender = 0
    /\ lenders = <<>>
    /\ model = <<>>
    /\ scaler = None
    /\ metadata = None
    /\ ret = NoCall
    /\ trainer = None
    /\ calls = <<>>

GenerateRandomUser ==
    /\ \E employment \in employment_types, purpose \in loan_purposes :
          LET incomes == income_range(employment)
          IN  IF randint(incomes[1], incomes[2]) = {}
              THEN ret' = Raise("generate_random_user", "ValueError")
              ELSE \E income \in randint(incomes[1], incomes[2]) :
                  LET credits == credit_range(employment, income)
                      loans == loan_range(purpose, income)
                  IN  IF randint(credits[1], credits[2]) = {} \/ randint(loans[1], loans[2]) = {}
                      THEN ret' = Raise("generate_random_user", "ValueError")
                      ELSE \E credit_score \in randint(credits[1], credits[2]),
                              loan_amount \in randint(loans[1], loans[2]) :
                          ret' = Return("generate_random_user",
                                        UserProfile(loan_amount, income, employment,
                                                    credit_score, purpose))
    /\ UNCHANGED <<user, lender, lenders, model, scaler, metadata, calls, trainer>>

NextUser == GenerateRandomUser

SpecUser == InitUser /\ [][NextUser]_vars

\* documented income range of each employment category
IncomeTable ==
    {<<"student", 0, 30000>>, <<"unemployed", 0, 15000>>, <<"freelancer", 15000, 150000>>,
     <<"self-employed", 25000, 300000>>, <<"salaried", 20000, 200000>>}

\* documented loan amounts: <<purposes, floor, floor of the ceiling, multiplier, cap>>;
\* for education the multiple of income is the income itself, at least 50000
LoanTable ==
    {<<{"home"}, 50000, 100000, 5, 1000000>>,
     <<{"vehicle"}, 15000, 30000, 3, 200000>>,
     <<{"education"}, 5000, 25000, 1, 200000>>,
     <<{"business", "startup"}, 25000, 50000, 4, 1000000>>,
     <<{"eco", "emergency", "gold-backed", "personal"}, 1000, 10000, 2, 100000>>}

\* C21: every call of generate_random_user returns a profile (no sampling
\* range is empty) with employment and purpose of the enumerations, an income
\* >= 0 in the range of its employment category, a credit score in 300..850
\* and in the band of its employment and income tier, and a loan amount > 0
\* between the floor of its purpose and max(floor of the ceiling,
\* min(multiplier * income, cap)).
C21_ProfileInRanges ==
    ret.op = "generate_random_user" =>
        /\ ret.status = "ok"
        /\ LET u == ret.value
           IN  /\ u.employmentStatus \in
                      {"salaried", "self-employed", "freelancer", "student", "unemployed"}
               /\ u.loanPurpose \in
                      {"home", "vehicle", "education", "business", "startup", "eco",
                       "emergency", "gold-backed", "personal"}
               /\ u.annualIncome >= 0
               /\ \E row \in IncomeTable :
                     /\ row[1] = u.employmentStatus
                     /\ row[2] <= u.annualIncome /\ u.annualIncome <= row[3]
               /\ u.creditScore \in 300..850
               /\ u.employmentStatus \in {"student", "unemployed"} => u.creditScore \in 300..650
               /\ (u.employmentStatus \notin {"student", "unemployed"} /\ u.annualIncome < 30000)
                      => u.creditScore \in 550..700
               /\ (u.employmentStatus \notin {"student", "unemployed"}
                   /\ u.annualIncome >= 30000 /\ u.annualIncome < 75000)
                      => u.creditScore \in 600..750
               /\ (u.employmentStatus \notin {"student", "unemployed"} /\ u.annualIncome >= 75000)
                      => u.creditScore \in 650..850
               /\ u.loanAmount > 0
               /\ \E row \in LoanTable :
                     LET multiple == IF u.loanPurpose = "education"
                                     THEN Max(u.annualIncome, 50000)
                                     ELSE row[4] * u.annualIncome
                     IN  /\ u.loanPurpose \in row[1]
                         /\ row[2] <= u.loanAmount
                         /\ u.loanAmount <= Max(row[3], Min(multiple, row[5]))

\* a student without income asking for a home loan at the floor of the ceiling
C21_Witness ==
    /\ Ok("generate_random_user")
    /\ ret.value = UserProfile(100000, 0, "student", 300, "home")

(***************************************************************************)
(* Specification of one predict_with_eligibility call, statement by        *)
(* statement: check_eligibility, then predict_single or the else branch,   *)
(* for each lender; then the sort and the return.  The call keeps, next to *)
(* its locals, the list positions it has checked and scored so far.        *)
(***************************************************************************)
InitElig ==
    /\ user \in RankUsers
    /\ lender = 0
    /\ \E ids \in IdLists : lenders = [i \in DOMAIN ids |-> lenders_data[ids[i]]]
    /\ model \in [{LoanMatchingInference_extract_features(user, lenders[i]) :
                      i \in DOMAIN lenders} -> {0, MaxProb}]
    /\ scaler \in {[n_features_in_ |-> w] : w \in ArtifactWidths}
    /\ metadata = [input_size |-> NumFeatures]
    /\ ret = NoCall
    /\ trainer = None
    /\ calls = << [pc |-> 1, stage |-> "check", eligibility |-> None, results |-> <<>>,
                   checked |-> <<>>, scored |-> <<>>] >>

\* the bug of scoring every lender, whatever its eligibility
BranchAlwaysScores(eligibility) == "score"

\* if all(eligibility.values()): ... else: ...
Branch(eligibility) == IF All(eligibility) THEN "score" ELSE "skip"

\* eligibility = self.check_eligibility(user_profile, lender)
EligCheck ==
    /\ calls[1].stage = "check"
    /\ calls[1].pc <= Len(lenders)
    /\ LET eligibility == LoanMatchingInference_check_eligibility(user, lenders[calls[1].pc])
       IN  calls' = [calls EXCEPT ![1].eligibility = eligibility,
                                  ![1].stage = Branch(eligibility),
                                  ![1].checked = Append(@, calls[1].pc)]
    /\ UNCHANGED <<user, lender, lenders, model, scaler, metadata, ret, trainer>>

\* probability, is_good_match = self.predict_single(user_profile, lender)
\* and the append of the eligible entry; a raise ends the call
EligScore ==
    /\ calls[1].stage = "score"
    /\ LET c == calls[1]
           p == predict_single(user, lenders[c.pc])
       IN  IF p.status = "raised"
           THEN /\ calls' = [calls EXCEPT ![1].stage = "done",
                                          ![1].scored = Append(@, c.pc)]
                /\ ret' = Raise("predict_with_eligibility", p.error)
           ELSE /\ calls' = [calls EXCEPT
                                ![1].stage = "check", ![1].pc = c.pc + 1,
                                ![1].scored = Append(@, c.pc),
                                ![1].results =
                                    Append(@, EligibleEntry(lenders[c.pc], p.value, c.eligibility))]
                /\ ret' = ret
    /\ UNCHANGED <<user, lender, lenders, model, scaler, metadata, trainer>>

\* the else branch: the append of the ineligible entry
EligSkip ==
    /\ calls[1].stage = "skip"
    /\ calls' = [calls EXCEPT
                    ![1].stage = "check", ![1].pc = calls[1].pc + 1,
                    ![1].results =
                        Append(@, IneligibleEntry(lenders[calls[1].pc], calls[1].eligibility))]
    /\ UNCHANGED <<user, lender, lenders, model, scaler, metadata, ret, trainer>>

\* the two filters, the sort and return eligible_results + ineligible_results
EligReturn ==
    /\ calls[1].stage = "check"
    /\ calls[1].pc > Len(lenders)
    /\ calls' = [calls EXCEPT ![1].stage = "done"]
    /\ ret' = Return("predict_with_eligibility",
                     ConcatResults(
                         SortByProbability(SelectSeq(calls[1].results, LAMBDA r : r.is_eligible)),
                         SelectSeq(calls[1].results, LAMBDA r : ~r.is_eligible)))
    /\ UNCHANGED <<user, lender, lenders, model, scaler, metadata, trainer>>

NextElig ==
    \/ EligCheck
    \/ EligScore
    \/ EligSkip
    \/ EligReturn

SpecElig == InitElig /\ [][NextElig]_vars

\* number of times position k occurs in the sequence s
Times(s, k) == Cardinality({i \in DOMAIN s : s[i] = k})

\* C22: at every moment of predict_with_eligibility the scorer has been
\* invoked at most once per lender, only for lenders passing the five
\* predicates and only after that lender's eligibility check; when the call
\* returns, every eligible lender has been scored exactly once and the list
\* holds exactly one result per input lender.
C22_ScoredOncePerEligible ==
    calls # <<>> =>
        LET c == calls[1]
        IN  /\ \A k \in DOMAIN lenders :
                  /\ Times(c.scored, k) <= 1
                  /\ Times(c.scored, k) = 1 =>
                        /\ EligibleForDict(user, lenders[k])
                        /\ Times(c.checked, k) = 1
            /\ Ok("predict_with_eligibility") =>
                  /\ \A k \in DOMAIN lenders :
                        Times(c.scored, k) = (IF EligibleForDict(user, lenders[k]) THEN 1 ELSE 0)
                  /\ Len(ret.value) = Len(lenders)
                  /\ \A k \in DOMAIN lenders :
                        Cardinality({i \in DOMAIN ret.value :
                                        ret.value[i].lender_id = lenders[k].id}) = 1

\* a returned call over three lenders of which some were scored and some not
C22_Witness ==
    /\ calls # <<>>
    /\ Ok("predict_with_eligibility")
    /\ Len(lenders) = 3
    /\ Len(calls[1].scored) \in {1, 2}
    /\ Len(ret.value) = 3

\* the pair of the last extract_features call passes the five predicates
ExtractedPairEligible ==
    \/ Ok("gen.extract_features") /\ EligibleForLenderData(user, load_lenders[lender])
    \/ Ok("inf.extract_features") /\ EligibleForDict(user, lenders_data[lender])

\* C23: the features of every eligible pair lie in the eligible region:
\* employment_match = 1, purpose_match = 1, 0 < loan_to_max_ratio <= 1,
\* income_multiple >= 1 and credit_buffer >= 0; so a loan_to_max_ratio above
\* 1 or a 0 in a match slot occurs only for ineligible pairs.
C23_EligibleRegion ==
    /\ ExtractedPairEligible =>
          /\ ret.value[5] = <<1, 1>>
          /\ ret.value[6] = <<1, 1>>
          /\ 0 < ret.value[8][1] /\ ret.value[8][1] <= ret.value[8][2]
          /\ ret.value[9][1] >= ret.value[9][2]
          /\ ret.value[10][1] >= 0
    /\ (/\ ret.op \in {"gen.extract_features", "inf.extract_features"}
        /\ ret.status = "ok"
        /\ \/ ret.value[8][1] > ret.value[8][2]
           \/ ret.value[5][1] = 0
           \/ ret.value[6][1] = 0)
       => ~ExtractedPairEligible

\* an eligible pair at the edge of the region: the whole maximum amount asked
\* with exactly the minimum income and the minimum credit score
C23_Witness ==
    /\ Ok("gen.extract_features")
    /\ ExtractedPairEligible
    /\ ret.value[8] = <<5000, 5000>>
    /\ ret.value[9] = <<20000, 20000>>
    /\ ret.value[10] = <<0, 550>>

(***************************************************************************)
(* LoanMatchingTrainer.train_model (train_model.py): one step per epoch,   *)
(* then the load of the checkpoint.  Weights are named by the number of    *)
(* epochs they were trained for in this call (0: the fresh network);       *)
(* StaleWeights names weights written by an earlier run.  The validation   *)
(* loss of an epoch is any of 1..MaxLoss.                                  *)
(***************************************************************************)
MaxEpochs == 4      \* largest model_config['epochs']
MaxPatience == 2    \* largest model_config['early_stopping_patience']
MaxLoss == 3        \* validation losses are 1..MaxLoss

\* float('inf')
Inf == MaxLoss + 1

StaleWeights == -1

\* ../models/best_model.pth before the call: absent, or left by an earlier run
InitTrain ==
    /\ user = None
    /\ lender = 0
    /\ lenders = <<>>
    /\ model = 0
    /\ scaler = None
    /\ metadata = None
    /\ ret = NoCall
    /\ calls = <<>>
    /\ \E epochs \in 0..MaxEpochs, patience \in 0..MaxPatience,
          file \in {<<>>, <<StaleWeights>>} :
          trainer = [epochs |-> epochs, early_stopping_patience |-> patience,
                     epoch |-> 0, best_val_loss |-> Inf, patience_counter |-> 0,
                     val_loss |-> <<>>, best_model_pth |-> file, pc |-> "loop"]

\* one pass of the for loop: training phase, validation phase, history and
\* the early stopping block
TrainEpoch ==
    /\ trainer.pc = "loop"
    /\ trainer.epoch < trainer.epochs
    /\ \E val_loss \in 1..MaxLoss :
          LET trained == model + 1
              history == Append(trainer.val_loss, val_loss)
          IN  /\ model' = trained
              /\ IF val_loss < trainer.best_val_loss
                 THEN trainer' = [trainer EXCEPT !.epoch = @ + 1, !.val_loss = history,
                                                 !.best_val_loss = val_loss,
                                                 !.patience_counter = 0,
                                                 !.best_model_pth = <<trained>>]
                 ELSE trainer' = [trainer EXCEPT !.epoch = @ + 1, !.val_loss = history,
                                                 !.patience_counter = @ + 1,
                                                 !.pc = IF trainer.patience_counter + 1
                                                            >= trainer.early_stopping_patience
                                                        THEN "load" ELSE "loop"]
    /\ UNCHANGED <<user, lender, lenders, scaler, metadata, ret, calls>>

\* range(epochs) is exhausted
LoopEnd ==
    /\ trainer.pc = "loop"
    /\ trainer.epoch >= trainer.epochs
    /\ trainer' = [trainer EXCEPT !.pc = "load"]
    /\ UNCHANGED <<user, lender, lenders, model, scaler, metadata, ret, calls>>

\* self.model.load_state_dict(torch.load('../models/best_model.pth'))
LoadBest ==
    /\ trainer.pc = "load"
    /\ IF trainer.best_model_pth = <<>>
       THEN /\ ret' = Raise("train_model", "FileNotFoundError")
            /\ model' = model
       ELSE /\ ret' = Return("train_model", None)
            /\ model' = trainer.best_model_pth[1]
    /\ trainer' = [trainer EXCEPT !.pc = "done"]
    /\ UNCHANGED <<user, lender, lenders, scaler, metadata, calls>>

NextTrain ==
    \/ TrainEpoch
    \/ LoopEnd
    \/ LoadBest

SpecTrain == InitTrain /\ [][NextTrain]_vars

\* epoch e (1-based) strictly improved on every earlier validation loss
Improves(h, e) == \A j \in 1..(e - 1) : h[e] < h[j]

\* number of consecutive epochs up to e that did not improve
RECURSIVE FailRun(_, _)
FailRun(h, e) == IF e = 0 \/ Improves(h, e) THEN 0 ELSE 1 + FailRun(h, e - 1)

\* at epoch e the loss has failed to improve for patience consecutive epochs
Exhausted(h, e, patience) == ~Improves(h, e) /\ FailRun(h, e) >= patience

\* C24: train_model runs at most model_config['epochs'] epochs; it leaves the
\* loop before that exactly at the first epoch at which the validation loss
\* has failed to strictly improve for early_stopping_patience consecutive
\* epochs; the patience counter is 0 after every strict improvement; and when
\* train_model returns the weights in place are those saved at the last epoch
\* that strictly improved the best validation loss, an epoch of minimum
\* validation loss.
C24_EarlyStoppingRestoresBest ==
    LET h == trainer.val_loss
        n == trainer.epoch
        patience == trainer.early_stopping_patience
    IN  /\ n <= trainer.epochs /\ Len(h) = n
        /\ \A e \in 1..(n - 1) : ~Exhausted(h, e, patience)
        /\ (trainer.pc # "loop" /\ n < trainer.epochs) => Exhausted(h, n, patience)
        /\ (trainer.pc = "loop" /\ n >= 1) => ~Exhausted(h, n, patience)
        /\ trainer.patience_counter = FailRun(h, n)
        /\ (n >= 1 /\ Improves(h, n)) => trainer.patience_counter = 0
        /\ Ok("train_model") =>
              \E e \in 1..n :
                  /\ Improves(h, e)
                  /\ \A j \in (e + 1)..n : ~Improves(h, j)
                  /\ \A j \in 1..n : h[e] <= h[j]
                  /\ model = e

\* the same statement for configurations with at least one epoch
C24_HoldsFromOneEpoch == trainer.epochs >= 1 => C24_EarlyStoppingRestoresBest

====
